---- MODULE Spec2Model ----
(***************************************************************************)
(* Path resolution and versioned saving of participant files               *)
(* (src/app.py): find_folder_by_path, find_file_in_folder,                 *)
(* download_csv_content, get_next_version_number, upload_versioned_csv,    *)
(* run against a Drive-like store.                                         *)
(*                                                                         *)
(* File names are sequences of one-character strings, so that the string   *)
(* operations of the code (rsplit, replace, int, f-string formatting) are  *)
(* computed the way Python computes them.                                  *)
(*                                                                         *)
(* The store is Google Drive: a folder may hold several entries of one     *)
(* name, the order of a listing is the store's choice, and one list        *)
(* request returns at most pageSize entries.  files().create either adds   *)
(* the file or raises and adds nothing.  Drive itself accepts a name that  *)
(* is already taken (strict = FALSE); a store that keeps names unique      *)
(* raises instead (strict = TRUE).  "name contains" is taken as substring  *)
(* containment.  Every store call may also raise (transport,               *)
(* authorization), which the code catches with "except Exception".         *)
(*                                                                         *)
(* main is modelled run by run: every interaction of the user (a changed   *)
(* text input, a pressed button) starts the script from the top with only  *)
(* the pressed button reading True, and a button can be pressed only when  *)
(* the last run rendered it.  The mock application (src/app_test.py) is    *)
(* modelled by its session_state.                                          *)
(***************************************************************************)
EXTENDS Integers, Sequences, FiniteSets, TLC

VARIABLES
    files,      \* the store: a set of entries (folders and files)
    nextId,     \* the id the store gives to the next created entry
    strict,     \* whether the store's create rejects a name that already exists
    base,       \* the base filename the sessions save under
    st,         \* st[w][i]: position of the i-th save invocation of session w
    ver,        \* ver[w][i]: version_num of that invocation (0: not yet allocated)
    res,        \* res[w][i]: what upload_versioned_csv returned (None or a file)
    snap,       \* snap[w][i]: the store as it was when the invocation started
    errs,       \* errs[w][i]: the st.error messages shown during the invocation
    rd,         \* the reading operation in progress (resolve / find / download)
    last,       \* the previous resolve of a repeated search (None: not repeated)
    ui,         \* the application: widget values, session_state, the run of main
    mock        \* the mock application (src/app_test.py): its session_state

vars == <<files, nextId, strict, base, st, ver, res, snap, errs, rd, last, ui, mock>>

-----------------------------------------------------------------------------
(* Bounds of the model *)

NumWriters == 2     \* concurrent sessions
MaxCalls == 2       \* save invocations per session
MaxInit == 2        \* versioned-looking siblings present before the first save

Writers == 1..NumWriters
Calls == 1..MaxCalls

None == [none |-> TRUE]

-----------------------------------------------------------------------------
(* Python string operations *)

Digits == <<"0", "1", "2", "3", "4", "5", "6", "7", "8", "9">>

IsDigit(c) == \E d \in 1..10 : Digits[d] = c

DigitVal(c) == (CHOOSE d \in 1..10 : Digits[d] = c) - 1

\* s[i:].startswith(p)
StartsAt(s, i, p) ==
    /\ i + Len(p) - 1 <= Len(s)
    /\ \A j \in 1..Len(p) : s[i + j - 1] = p[j]

\* p in s   (p non-empty)
Contains(s, p) == \E i \in 1..Len(s) : StartsAt(s, i, p)

\* s.replace(old, ''): every non-overlapping occurrence, left to right
RECURSIVE ReplaceFrom(_, _, _)
ReplaceFrom(s, i, old) ==
    IF i > Len(s) THEN <<>>
    ELSE IF StartsAt(s, i, old) THEN ReplaceFrom(s, i + Len(old), old)
    ELSE <<s[i]>> \o ReplaceFrom(s, i + 1, old)

Replace(s, old) == ReplaceFrom(s, 1, old)

\* position of the last '.' of s, 0 when there is none
LastDot(s) ==
    IF \E i \in 1..Len(s) : s[i] = "."
    THEN CHOOSE i \in 1..Len(s) : s[i] = "." /\ \A j \in (i + 1)..Len(s) : s[j] # "."
    ELSE 0

HasDot(s) == LastDot(s) # 0

\* base_filename.rsplit('.', 1)  ->  (name_part, ext); no '.': (base_filename, '')
NamePart(b) == IF HasDot(b) THEN SubSeq(b, 1, LastDot(b) - 1) ELSE b

Ext(b) == IF HasDot(b) THEN SubSeq(b, LastDot(b) + 1, Len(b)) ELSE <<>>

\* str(n) for n >= 0, as an f-string formats it
RECURSIVE IntToStr(_)
IntToStr(n) ==
    IF n < 10 THEN <<Digits[n + 1]>>
    ELSE IntToStr(n \div 10) \o <<Digits[(n % 10) + 1]>>

\* s.strip() for the one whitespace character of the model's alphabet
RECURSIVE LStrip(_)
LStrip(s) == IF s # <<>> /\ Head(s) = " " THEN LStrip(Tail(s)) ELSE s

RECURSIVE RStrip(_)
RStrip(s) ==
    IF s # <<>> /\ s[Len(s)] = " " THEN RStrip(SubSeq(s, 1, Len(s) - 1)) ELSE s

\* the digit groups int() accepts: digits, with single '_' between digits
IsIntBody(s) ==
    /\ s # <<>>
    /\ \A i \in 1..Len(s) : IsDigit(s[i]) \/ s[i] = "_"
    /\ IsDigit(s[1]) /\ IsDigit(s[Len(s)])
    /\ \A i \in 1..(Len(s) - 1) : ~(s[i] = "_" /\ s[i + 1] = "_")

RECURSIVE DigitsValue(_, _)
DigitsValue(s, acc) ==
    IF s = <<>> THEN acc
    ELSE IF Head(s) = "_" THEN DigitsValue(Tail(s), acc)
    ELSE DigitsValue(Tail(s), 10 * acc + DigitVal(Head(s)))

\* int(s): [ok |-> FALSE] stands for ValueError
ParseInt(s) ==
    LET t == RStrip(LStrip(s))
        signed == t # <<>> /\ t[1] \in {"+", "-"}
        body == IF signed THEN Tail(t) ELSE t
    IN  IF IsIntBody(body)
        THEN [ok |-> TRUE,
              val |-> IF signed /\ t[1] = "-" THEN 0 - DigitsValue(body, 0)
                      ELSE DigitsValue(body, 0)]
        ELSE [ok |-> FALSE, val |-> 0]

-----------------------------------------------------------------------------
(* The store: Google Drive as the code uses it *)

PageSizeVersions == 100     \* pageSize of the sibling listing
PageSizeLookup == 10        \* pageSize of the folder and file lookups

Root == 0                   \* root_folder_id, the anchor
FolderA == 1
Target == 2                 \* the participant's results folder

Entry(id, name, parent, folder, trashed, content) ==
    [id |-> id, name |-> name, parent |-> parent, folder |-> folder,
     trashed |-> trashed, content |-> content]

\* what one files().list request may return for a query with these matches:
\* all of them, or any pageSize of them when there are more (no nextPageToken
\* is followed)
RECURSIVE LeaveOut(_, _)
LeaveOut(matches, k) ==
    IF k = 0 THEN {matches}
    ELSE UNION {LeaveOut(matches \ {f}, k - 1) : f \in matches}

ListPages(matches, pageSize) ==
    IF Cardinality(matches) <= pageSize THEN {matches}
    ELSE LeaveOut(matches, Cardinality(matches) - pageSize)

\* q = "'{folder_id}' in parents and trashed=false and name contains '{version_pattern}'"
VersionQuery(fs, folder_id, version_pattern) ==
    {f \in fs : f.parent = folder_id /\ ~f.trashed /\ Contains(f.name, version_pattern)}

\* q = "name='{folder_name}' and '{current}' in parents and mimeType=folder and trashed=false"
FolderQuery(fs, current, folder_name) ==
    {f \in fs : f.name = folder_name /\ f.parent = current /\ f.folder /\ ~f.trashed}

\* q = "name='{filename}' and '{folder_id}' in parents and trashed=false"
FileQuery(fs, folder_id, filename) ==
    {f \in fs : f.name = filename /\ f.parent = folder_id /\ ~f.trashed}

-----------------------------------------------------------------------------
(* get_next_version_number and the naming of upload_versioned_csv *)

VersionPattern(b) == NamePart(b) \o <<"_", "v">>

\* version_str of one listed filename
VersionStr(filename, b) ==
    IF Ext(b) # <<>>
    THEN Replace(Replace(filename, VersionPattern(b)), <<".">> \o Ext(b))
    ELSE Replace(filename, VersionPattern(b))

\* the loop over the listed files: max_version starts at 0, a ValueError skips the file
MaxVersion(names, b) ==
    LET parsed == {ParseInt(VersionStr(n, b)) : n \in names}
        vs == {p.val : p \in {q \in parsed : q.ok}} \cup {0}
    IN  CHOOSE m \in vs : \A v \in vs : m >= v

\* the value returned for one listing response
NextVersionOf(page, b) == MaxVersion({f.name : f \in page}, b) + 1

\* the value returned when the listing raises
NextVersionOnError == 1

\* new_filename
VersionedName(b, n) ==
    IF HasDot(b)
    THEN NamePart(b) \o <<"_", "v">> \o IntToStr(n) \o <<".">> \o Ext(b)
    ELSE b \o <<"_", "v">> \o IntToStr(n)

\* the body and media of files().create
NewFile(id, folder_id, name, payload) == Entry(id, name, folder_id, FALSE, FALSE, payload)

\* the CSV bytes session w uploads in its i-th save
Payload(w, i) == <<"edited", w, i>>

\* a store that keeps names unique under a parent refuses this create
NameTaken(fs, folder_id, name) ==
    \E f \in fs : f.parent = folder_id /\ ~f.trashed /\ f.name = name

-----------------------------------------------------------------------------
(* Initial store contents *)

A == <<"a">>                        \* first path segment
R == <<"r">>                        \* last path segment ("results")

DataCsv == <<"d", ".", "c">>        \* a base filename with an extension
DataNoExt == <<"d">>                \* a base filename without '.'
BaseNames == {DataCsv, DataNoExt}

\* siblings the data pipeline or earlier saves may have left in the folder
SiblingPool ==
    << Entry(11, <<"d", "_", "v", "1", ".", "c">>, Target, FALSE, FALSE, "old"),
       Entry(12, <<"d", "_", "v", "2", ".", "c">>, Target, FALSE, FALSE, "old"),
       Entry(13, <<"d", "_", "v", "x", ".", "c">>, Target, FALSE, FALSE, "old"),
       Entry(14, <<"d", "_", "v", "3", ".", "c", ".", "c">>, Target, FALSE, FALSE, "old"),
       Entry(15, <<"x", "d", "_", "v", "6", ".", "c">>, Target, FALSE, FALSE, "old"),
       Entry(16, <<"d", "_", "v", "5", ".", "c">>, Target, FALSE, TRUE, "old"),
       Entry(17, <<"d", "_", "v", "4">>, Target, FALSE, FALSE, "old") >>

Siblings == {SiblingPool[k] : k \in 1..Len(SiblingPool)}

FirstNewId == 30

Pdf == <<"p">>                      \* a read-only report

\* the folder chain Root / a / r of the saving specifications, with a report
Chain == {Entry(FolderA, A, Root, TRUE, FALSE, "folder"),
          Entry(Target, R, FolderA, TRUE, FALSE, "folder"),
          Entry(20, Pdf, Target, FALSE, FALSE, "report")}

\* the original, unversioned file
Original(b) == Entry(10, b, Target, FALSE, FALSE, "original")

\* the reader between two operations
IdleReader ==
    [op |-> "idle", path |-> <<>>, k |-> 0, cur |-> Root, looks |-> 0,
     out |-> None, err |-> FALSE]

\* the application before its first run: empty widgets, empty session_state
NewSession ==
    [pos |-> "idle", runs |-> 0, pressed |-> "none", user_email |-> <<>>,
     participant_id |-> <<>>, authorized |-> "unset", users |-> {},
     checked |-> "none", checked_email |-> <<>>, calls |-> <<>>, shown |-> {},
     target |-> None, found |-> <<>>, df |-> None, new_file |-> None]

\* the mock application before its first run
NewMockSession ==
    [participant_id |-> <<>>, has_df |-> FALSE, original_df |-> None,
     current_df |-> None, save_count |-> 0, last_saved_version |-> None,
     saved |-> <<>>]

InitSessions ==
    /\ nextId = FirstNewId
    /\ st = [w \in Writers |-> [i \in Calls |-> "Idle"]]
    /\ ver = [w \in Writers |-> [i \in Calls |-> 0]]
    /\ res = [w \in Writers |-> [i \in Calls |-> None]]
    /\ snap = [w \in Writers |-> [i \in Calls |-> {}]]
    /\ errs = [w \in Writers |-> [i \in Calls |-> {}]]
    /\ rd = IdleReader
    /\ last = None
    /\ ui = NewSession
    /\ mock = NewMockSession

Init ==
    /\ strict \in BOOLEAN
    /\ base \in BaseNames
    /\ \E sibs \in SUBSET Siblings :
          /\ Cardinality(sibs) <= MaxInit
          /\ files = Chain \cup {Original(base)} \cup sibs
    /\ InitSessions

-----------------------------------------------------------------------------
(* upload_versioned_csv, one action per store call *)

Terminal == {"Success", "Failed"}

\* the invocation begins: session w presses Save for the i-th time
Start(w, i) ==
    /\ st[w][i] = "Idle"
    /\ i > 1 => st[w][i - 1] \in Terminal
    /\ st' = [st EXCEPT ![w][i] = "Allocating"]
    /\ snap' = [snap EXCEPT ![w][i] = files]
    /\ UNCHANGED <<last, ui, mock, files, nextId, strict, base, ver, res, errs, rd>>

\* get_next_version_number: the listing answers
AllocateOk(w, i) ==
    /\ st[w][i] = "Allocating"
    /\ \E page \in ListPages(VersionQuery(files, Target, VersionPattern(base)),
                             PageSizeVersions) :
          ver' = [ver EXCEPT ![w][i] = NextVersionOf(page, base)]
    /\ st' = [st EXCEPT ![w][i] = "Creating"]
    /\ UNCHANGED <<last, ui, mock, files, nextId, strict, base, res, snap, errs, rd>>

\* get_next_version_number: the listing raises, the except branch returns 1
AllocateError(w, i) ==
    /\ st[w][i] = "Allocating"
    /\ ver' = [ver EXCEPT ![w][i] = NextVersionOnError]
    /\ errs' = [errs EXCEPT ![w][i] = @ \cup {"version"}]
    /\ st' = [st EXCEPT ![w][i] = "Creating"]
    /\ UNCHANGED <<last, ui, mock, files, nextId, strict, base, res, snap, rd>>

\* a create that replaces what already carries the name (mutation of StoreAfterCreate)
StoreAfterCreateOverwrite(fs, f) ==
    {g \in fs : ~(g.parent = f.parent /\ g.name = f.name)} \cup {f}

\* the store after a create that succeeded
StoreAfterCreate(fs, f) == fs \cup {f}

\* files().create answers: the new file is returned
CreateOk(w, i) ==
    /\ st[w][i] = "Creating"
    /\ LET new_filename == VersionedName(base, ver[w][i])
           file == NewFile(nextId, Target, new_filename, Payload(w, i))
       IN  /\ ~(strict /\ NameTaken(files, Target, new_filename))
           /\ files' = StoreAfterCreate(files, file)
           /\ res' = [res EXCEPT ![w][i] = [id |-> file.id, name |-> file.name]]
    /\ nextId' = nextId + 1
    /\ st' = [st EXCEPT ![w][i] = "Success"]
    /\ UNCHANGED <<last, ui, mock, strict, base, ver, snap, errs, rd>>

\* a failed upload that leaves its file behind (mutation of StoreAfterFailedCreate)
StoreAfterFailedCreatePartial(fs, f) == fs \cup {f}

\* the store after a create that raised
StoreAfterFailedCreate(fs, f) == fs

\* an exception of create answered by scanning again (mutation of CreateRaised)
CreateRaisedRescan(w, i, why) ==
    /\ errs' = [errs EXCEPT ![w][i] = @ \cup {why}]
    /\ st' = [st EXCEPT ![w][i] = "Allocating"]
    /\ UNCHANGED <<last, ui, mock, files, nextId, strict, base, ver, res, snap, rd>>

\* what upload_versioned_csv does with an exception of create: report, return None
CreateRaised(w, i, why) ==
    /\ files' = StoreAfterFailedCreate(
                    files, NewFile(nextId, Target, VersionedName(base, ver[w][i]),
                                   Payload(w, i)))
    /\ errs' = [errs EXCEPT ![w][i] = @ \cup {why}]
    /\ res' = [res EXCEPT ![w][i] = None]
    /\ st' = [st EXCEPT ![w][i] = "Failed"]
    /\ UNCHANGED <<last, ui, mock, nextId, strict, base, ver, snap, rd>>

\* files().create raises because the name exists (a store with unique names)
CreateCollision(w, i) ==
    /\ st[w][i] = "Creating"
    /\ strict
    /\ NameTaken(files, Target, VersionedName(base, ver[w][i]))
    /\ CreateRaised(w, i, "upload: name exists")

\* files().create raises for any other reason (transport, authorization)
CreateError(w, i) ==
    /\ st[w][i] = "Creating"
    /\ CreateRaised(w, i, "upload: store unavailable")

Save(w, i) ==
    \/ Start(w, i)
    \/ AllocateOk(w, i)
    \/ AllocateError(w, i)
    \/ CreateOk(w, i)
    \/ CreateCollision(w, i)
    \/ CreateError(w, i)

-----------------------------------------------------------------------------
(* find_folder_by_path, one action per lookup *)

MaxPath == 2        \* longest path resolved

Segments == {A, R}

RECURSIVE PathsOfLen(_)
PathsOfLen(n) ==
    IF n = 0 THEN {<<>>}
    ELSE {p \o <<seg>> : p \in PathsOfLen(n - 1), seg \in Segments}

Paths == UNION {PathsOfLen(n) : n \in 1..MaxPath}

\* the call begins: current_folder_id = root_folder_id
StartResolve(p) ==
    /\ rd.op = "idle"
    /\ rd' = [op |-> "resolve", path |-> p, k |-> 1, cur |-> Root, looks |-> 0,
              out |-> None, err |-> FALSE]
    /\ UNCHANGED <<last, ui, mock, files, nextId, strict, base, st, ver, res, snap, errs>>

\* the folder the loop moves to: files[0] of a response whose order the store chooses
FirstOf(page) == page

\* the reader after the list call for segment k answered with this page
AfterLookup(r, page, f) ==
    IF page = {}
    THEN [r EXCEPT !.op = "resolved", !.out = None, !.looks = @ + 1]
    ELSE IF r.k = Len(r.path)
    THEN [r EXCEPT !.op = "resolved", !.out = [id |-> f.id], !.cur = f.id,
                   !.looks = @ + 1]
    ELSE [r EXCEPT !.k = @ + 1, !.cur = f.id, !.looks = @ + 1]

\* one iteration of the loop: the list call answers
ResolveLookup ==
    /\ rd.op = "resolve"
    /\ \E page \in ListPages(FolderQuery(files, rd.cur, rd.path[rd.k]), PageSizeLookup) :
          \/ /\ page = {}
             /\ rd' = AfterLookup(rd, page, None)
          \/ \E f \in FirstOf(page) : rd' = AfterLookup(rd, page, f)
    /\ UNCHANGED <<last, ui, mock, files, nextId, strict, base, st, ver, res, snap, errs>>

\* one iteration of the loop: the list call raises, the except branch returns None
ResolveLookupError ==
    /\ rd.op = "resolve"
    /\ rd' = [rd EXCEPT !.op = "resolved", !.out = None, !.err = TRUE, !.looks = @ + 1]
    /\ UNCHANGED <<last, ui, mock, files, nextId, strict, base, st, ver, res, snap, errs>>

-----------------------------------------------------------------------------
(* find_file_in_folder and download_csv_content *)

FolderIds == {FolderA, Target}

LookupNames == {DataCsv, DataNoExt, Pdf}

FindFile(folder_id, filename) ==
    /\ rd.op = "idle"
    /\ \E page \in ListPages(FileQuery(files, folder_id, filename), PageSizeLookup) :
          \/ /\ page = {}
             /\ rd' = [IdleReader EXCEPT !.op = "found", !.cur = folder_id,
                                         !.path = <<filename>>, !.looks = 1]
          \/ \E f \in FirstOf(page) :
                rd' = [IdleReader EXCEPT !.op = "found", !.cur = folder_id,
                                         !.path = <<filename>>, !.looks = 1,
                                         !.out = [id |-> f.id, name |-> f.name]]
    /\ UNCHANGED <<last, ui, mock, files, nextId, strict, base, st, ver, res, snap, errs>>

FindFileError(folder_id, filename) ==
    /\ rd.op = "idle"
    /\ rd' = [IdleReader EXCEPT !.op = "found", !.cur = folder_id,
                                !.path = <<filename>>, !.looks = 1, !.err = TRUE]
    /\ UNCHANGED <<last, ui, mock, files, nextId, strict, base, st, ver, res, snap, errs>>

DownloadCsv(file_id) ==
    /\ rd.op = "idle"
    /\ \E f \in files :
          /\ f.id = file_id /\ ~f.folder
          /\ rd' = [IdleReader EXCEPT !.op = "downloaded", !.cur = file_id,
                                      !.looks = 1, !.out = [content |-> f.content]]
    /\ UNCHANGED <<last, ui, mock, files, nextId, strict, base, st, ver, res, snap, errs>>

DownloadCsvError(file_id) ==
    /\ rd.op = "idle"
    /\ rd' = [IdleReader EXCEPT !.op = "downloaded", !.cur = file_id,
                                !.looks = 1, !.err = TRUE]
    /\ UNCHANGED <<last, ui, mock, files, nextId, strict, base, st, ver, res, snap, errs>>

\* the operation's result is consumed; the reader is free again
ReadReturn ==
    /\ rd.op \in {"resolved", "found", "downloaded"}
    /\ rd' = IdleReader
    /\ last' = None
    /\ UNCHANGED <<ui, mock, files, nextId, strict, base, st, ver, res, snap, errs>>

\* main, Search pressed once more with the same inputs: find_folder_by_path runs
\* again from the same anchor with the same path; what the first run returned,
\* and the store it ran against, are remembered
ResolveAgain ==
    /\ rd.op = "resolved"
    /\ last = None
    /\ last' = [store |-> files, path |-> rd.path, out |-> rd.out, err |-> rd.err]
    /\ rd' = [IdleReader EXCEPT !.op = "resolve", !.path = rd.path, !.k = 1]
    /\ UNCHANGED <<ui, mock, files, nextId, strict, base, st, ver, res, snap, errs>>

Read ==
    \/ \E p \in Paths : StartResolve(p)
    \/ ResolveLookup
    \/ ResolveLookupError
    \/ \E d \in FolderIds : \E n \in LookupNames : FindFile(d, n)
    \/ \E d \in FolderIds : \E n \in LookupNames : FindFileError(d, n)
    \/ \E f \in files : DownloadCsv(f.id)
    \/ \E f \in files : DownloadCsvError(f.id)
    \/ ReadReturn

-----------------------------------------------------------------------------
(* Specifications *)

\* concurrent sessions, each saving once
Next == \E w \in Writers : Save(w, 1)

Spec == Init /\ [][Next]_vars

\* the races of the liveness check start from folders that hold the original
\* and well-formed earlier versions only
RaceIds == {FolderA, Target, 10, 11, 12, 20}

InitRace == Init /\ \A f \in files : f.id \in RaceIds

\* every store call returns: an invocation that has started keeps moving
FairSpec ==
    /\ InitRace
    /\ [][Next]_vars
    /\ \A w \in Writers :
          /\ WF_vars(AllocateError(w, 1) \/ AllocateOk(w, 1))
          /\ WF_vars(CreateError(w, 1) \/ CreateCollision(w, 1) \/ CreateOk(w, 1))

\* one session saving several times in a row
NextSolo == \E i \in Calls : Save(1, i)

SpecSolo == Init /\ [][NextSolo]_vars

\* no save of session 1 is between its entry and its return
NotSaving == \A i \in Calls : st[1][i] \in {"Idle"} \cup Terminal

\* one session running its script: reads and saves, one operation at a time
NextSession ==
    \/ rd.op = "idle" /\ \E i \in Calls : Save(1, i)
    \/ NotSaving /\ Read

SpecSession == InitRace /\ [][NextSession]_vars

\* folder trees with missing, deleted and duplicate folders
TreePool ==
    << Entry(FolderA, A, Root, TRUE, FALSE, "folder"),
       Entry(3, A, Root, TRUE, FALSE, "folder"),
       Entry(Target, R, FolderA, TRUE, FALSE, "folder"),
       Entry(4, R, 3, TRUE, FALSE, "folder"),
       Entry(5, R, FolderA, TRUE, TRUE, "folder"),
       Entry(6, A, Root, FALSE, FALSE, "report"),
       Entry(7, R, Root, TRUE, FALSE, "folder") >>

InitTree ==
    /\ strict = FALSE
    /\ base = DataCsv
    /\ \E tree \in SUBSET {TreePool[k] : k \in 1..Len(TreePool)} :
          files = tree \cup {Original(base)}
    /\ InitSessions

NextResolve == Read \/ ResolveAgain

SpecResolve == InitTree /\ [][NextResolve]_vars

-----------------------------------------------------------------------------
(* main: the allow-list and the widgets *)

\* str.lower() over the letters of the model's alphabet
LowerChar(c) == IF c = "A" THEN "a" ELSE IF c = "B" THEN "b" ELSE c

Lower(s) == [k \in 1..Len(s) |-> LowerChar(s[k])]

\* column A of the allow-list sheet: "A " (to be stripped and lower-cased) and
\* a blank row
SheetRows == { <<"A", " ">>, <<" ">> }

\* get_authorized_users: row[0].strip().lower() of every row that is not blank
AuthorizedUsers(rows) ==
    {Lower(RStrip(LStrip(r))) : r \in {q \in rows : RStrip(LStrip(q)) # <<>>}}

\* get_authorized_users when the sheet cannot be read: []
AuthorizedUsersOnError == {}

\* check_user_authorization, mutated: any entered address passes
CheckUserAuthorizationAnyEmail(user_email, authorized_users) == user_email # <<>>

\* check_user_authorization
CheckUserAuthorization(user_email, authorized_users) ==
    Lower(user_email) \in authorized_users

\* what the user may type into the two text inputs
Emails == { <<>>, <<"a">>, <<"A">>, <<"b">>, <<"a", " ">> }
ParticipantIds == { <<>>, <<"7">> }

\* the entry of the selectbox (one accelerometer type is enough here)
Accelerometer == <<"g">>

CsvFilename == DataCsv
PdfFilename1 == Pdf
PdfFilename2 == <<"q">>

\* the names looked up in the participant's folder, in the order of the calls
LookupOrder == <<CsvFilename, PdfFilename1, PdfFilename2>>

OutputPrefix == <<"o", "u", "t", "p", "u", "t", "_">>

\* path_components, mutated: participant folder and output folder swapped
PathComponentsSwapped(selected_accelerometer, participant_id) ==
    <<selected_accelerometer, OutputPrefix \o participant_id, participant_id, R>>

\* path_components
PathComponents(selected_accelerometer, participant_id) ==
    <<selected_accelerometer, participant_id, OutputPrefix \o participant_id, R>>

MaxRuns == 4        \* runs of main (one per user interaction)

\* the values of one run of main that the next run starts without
RunLocals ==
    [users |-> {}, checked |-> "none", checked_email |-> <<>>, calls |-> <<>>,
     shown |-> {}, target |-> None, found |-> <<>>, df |-> None, new_file |-> None]

\* a run begins: the script starts from the top with the widget values as they
\* are and with only the pressed button reading True
BeginRun(u, button) ==
    [pos |-> "sidebar", runs |-> u.runs + 1, pressed |-> button,
     user_email |-> u.user_email, participant_id |-> u.participant_id,
     authorized |-> u.authorized] @@ RunLocals

-----------------------------------------------------------------------------
(* main: what its calls into the store may return *)

\* find_folder_by_path as one call: the ids it may return, None when a segment
\* has no match or a list call raises
RECURSIVE FolderByPath(_, _, _)
FolderByPath(fs, current, path) ==
    IF path = <<>> THEN {[id |-> current]}
    ELSE {None} \cup
         UNION {UNION {FolderByPath(fs, f.id, Tail(path)) : f \in FirstOf(page)} :
                  page \in ListPages(FolderQuery(fs, current, Head(path)), PageSizeLookup)}

\* find_file_in_folder as one call: files[0] of a listing, None when there is
\* no match or the list call raises
FileInFolder(fs, folder_id, filename) ==
    {None} \cup
    UNION {{[id |-> f.id, name |-> f.name] : f \in FirstOf(page)} :
             page \in ListPages(FileQuery(fs, folder_id, filename), PageSizeLookup)}

\* download_csv_content as one call: the frame read, None when the download raises
CsvContent(fs, file_id) ==
    {None} \cup {[content |-> f.content] : f \in {g \in fs : g.id = file_id /\ ~g.folder}}

\* upload_versioned_csv as one call: the store afterwards and the value returned
UploadVersionedCsv(fs, id, folder_id, b) ==
    LET pages == ListPages(VersionQuery(fs, folder_id, VersionPattern(b)), PageSizeVersions)
        versions == {NextVersionOnError} \cup {NextVersionOf(page, b) : page \in pages}
        file(v) == NewFile(id, folder_id, VersionedName(b, v), Payload(1, 1))
    IN  {[files |-> StoreAfterFailedCreate(fs, file(v)), new_file |-> None] : v \in versions}
        \cup {[files |-> StoreAfterCreate(fs, file(v)),
               new_file |-> [id |-> id, name |-> VersionedName(b, v)]] : v \in versions}

\* one store call as the run records it
Call(op, id, arg) == [op |-> op, id |-> id, arg |-> arg]

-----------------------------------------------------------------------------
(* main: the user's interactions, each starting a run *)

\* the user changes the address in the sidebar: a run with no button pressed
TypeEmail(e) ==
    /\ ui.pos = "idle" /\ ui.runs < MaxRuns
    /\ e # ui.user_email
    /\ ui' = [BeginRun(ui, "none") EXCEPT !.user_email = e]
    /\ UNCHANGED <<files, nextId, strict, base, st, ver, res, snap, errs, rd, last, mock>>

\* the user changes the participant id: a run with no button pressed
TypeParticipantId(p) ==
    /\ ui.pos = "idle" /\ ui.runs < MaxRuns
    /\ p # ui.participant_id
    /\ ui' = [BeginRun(ui, "none") EXCEPT !.participant_id = p]
    /\ UNCHANGED <<files, nextId, strict, base, st, ver, res, snap, errs, rd, last, mock>>

\* a button can be pressed when the last run rendered it
PressSearch ==
    /\ ui.pos = "idle" /\ ui.runs < MaxRuns
    /\ "search" \in ui.shown
    /\ ui' = BeginRun(ui, "search")
    /\ UNCHANGED <<files, nextId, strict, base, st, ver, res, snap, errs, rd, last, mock>>

PressSave ==
    /\ ui.pos = "idle" /\ ui.runs < MaxRuns
    /\ "save" \in ui.shown
    /\ ui' = BeginRun(ui, "save")
    /\ UNCHANGED <<files, nextId, strict, base, st, ver, res, snap, errs, rd, last, mock>>

-----------------------------------------------------------------------------
(* main: the steps of one run *)

\* st.stop(), or the end of the script: the run is over, the page waits
Stop(u) == [u EXCEPT !.pos = "idle"]

\* the sidebar and the guard of the main area
Sidebar ==
    /\ ui.pos = "sidebar"
    /\ \E authorized_users \in {AuthorizedUsers(SheetRows), AuthorizedUsersOnError} :
          ui' = IF ui.user_email = <<>> THEN Stop(ui)
                ELSE LET checked == [ui EXCEPT !.users = authorized_users,
                                               !.checked_email = ui.user_email]
                     IN  IF CheckUserAuthorization(ui.user_email, authorized_users)
                         THEN LET u == [checked EXCEPT !.checked = "True",
                                                       !.authorized = "True"]
                              IN  IF u.authorized # "True" THEN Stop(u)
                                  ELSE [u EXCEPT !.pos = "form"]
                         ELSE Stop([checked EXCEPT !.checked = "False",
                                                   !.authorized = "False"])
    /\ UNCHANGED <<files, nextId, strict, base, st, ver, res, snap, errs, rd, last, mock>>

\* the search form: the Search button is rendered, and read
SearchForm ==
    /\ ui.pos = "form"
    /\ ui' = [ui EXCEPT !.shown = @ \cup {"search"},
                        !.pos = IF ui.pressed = "search" /\ ui.participant_id # <<>>
                                THEN "connect" ELSE "idle"]
    /\ UNCHANGED <<files, nextId, strict, base, st, ver, res, snap, errs, rd, last, mock>>

\* the Drive service and the root folder id are there
Connect ==
    /\ ui.pos = "connect"
    /\ ui' = [ui EXCEPT !.pos = "resolve"]
    /\ UNCHANGED <<files, nextId, strict, base, st, ver, res, snap, errs, rd, last, mock>>

\* get_google_drive_service returned None, or root_folder_id is not configured
ConnectFails ==
    /\ ui.pos = "connect"
    /\ ui' = Stop(ui)
    /\ UNCHANGED <<files, nextId, strict, base, st, ver, res, snap, errs, rd, last, mock>>

\* the target folder is resolved; st.stop() when it is not found
ResolveTarget ==
    /\ ui.pos = "resolve"
    /\ LET path_components == PathComponents(Accelerometer, ui.participant_id)
       IN  \E target_folder_id \in FolderByPath(files, Root, path_components) :
              ui' = [ui EXCEPT !.calls = Append(@, Call("resolve", Root, path_components)),
                               !.target = target_folder_id,
                               !.pos = IF target_folder_id = None THEN "idle" ELSE "find"]
    /\ UNCHANGED <<files, nextId, strict, base, st, ver, res, snap, errs, rd, last, mock>>

\* the next of the three lookups
FindNext ==
    /\ ui.pos = "find"
    /\ LET filename == LookupOrder[Len(ui.found) + 1]
       IN  \E file \in FileInFolder(files, ui.target.id, filename) :
              ui' = [ui EXCEPT !.calls = Append(@, Call("find", ui.target.id, filename)),
                               !.found = Append(@, file),
                               !.pos = IF Len(ui.found) + 1 = Len(LookupOrder)
                                       THEN "csv" ELSE "find"]
    /\ UNCHANGED <<files, nextId, strict, base, st, ver, res, snap, errs, rd, last, mock>>

\* the editable file, when it was found, is downloaded
ShowCsv ==
    /\ ui.pos = "csv"
    /\ LET csv_file == ui.found[1]
       IN  IF csv_file = None THEN ui' = Stop(ui)
           ELSE \E df \in CsvContent(files, csv_file.id) :
                   ui' = [ui EXCEPT !.calls = Append(@, Call("download", csv_file.id, <<>>)),
                                    !.df = df,
                                    !.pos = IF df = None THEN "idle" ELSE "editor"]
    /\ UNCHANGED <<files, nextId, strict, base, st, ver, res, snap, errs, rd, last, mock>>

\* the data editor and the Save button are rendered; the button is read
Editor ==
    /\ ui.pos = "editor"
    /\ IF ui.pressed = "save"
       THEN \E up \in UploadVersionedCsv(files, nextId, ui.target.id, CsvFilename) :
               /\ files' = up.files
               /\ nextId' = nextId + 1
               /\ ui' = Stop([ui EXCEPT !.shown = @ \cup {"save"},
                                        !.calls = Append(@, Call("upload", ui.target.id, CsvFilename)),
                                        !.new_file = up.new_file])
       ELSE /\ ui' = Stop([ui EXCEPT !.shown = @ \cup {"save"}])
            /\ UNCHANGED <<files, nextId>>
    /\ UNCHANGED <<strict, base, st, ver, res, snap, errs, rd, last, mock>>

Run ==
    \/ Sidebar
    \/ SearchForm
    \/ Connect
    \/ ConnectFails
    \/ ResolveTarget
    \/ FindNext
    \/ ShowCsv
    \/ Editor

NextApp ==
    \/ \E e \in Emails : TypeEmail(e)
    \/ \E p \in ParticipantIds : TypeParticipantId(p)
    \/ PressSearch
    \/ PressSave
    \/ Run

\* the participant's tree: the three outer folders, and any of the results
\* folder, the editable file and the two reports
AppFolders ==
    {Entry(41, Accelerometer, Root, TRUE, FALSE, "folder"),
     Entry(42, <<"7">>, 41, TRUE, FALSE, "folder"),
     Entry(43, OutputPrefix \o <<"7">>, 42, TRUE, FALSE, "folder")}

AppOptional ==
    {Entry(44, R, 43, TRUE, FALSE, "folder"),
     Entry(45, CsvFilename, 44, FALSE, FALSE, "original"),
     Entry(46, PdfFilename1, 44, FALSE, FALSE, "report"),
     Entry(47, PdfFilename2, 44, FALSE, FALSE, "report")}

InitApp ==
    /\ strict = FALSE
    /\ base = CsvFilename
    /\ \E present \in SUBSET AppOptional : files = AppFolders \cup present
    /\ InitSessions

SpecApp == InitApp /\ [][NextApp]_vars

-----------------------------------------------------------------------------
(* Base filenames of every shape, saved under after an earlier write *)

SeveralDots == <<"d", ".", "b", ".", "c">>      \* rsplit: ("d.b", "c")
TrailingDot == <<"d", ".">>                     \* rsplit: ("d", "")
EmptyStem == <<".", "c">>                       \* rsplit: ("", "c")
PatternInExt == <<"d", ".", "d", "_", "v">>     \* rsplit: ("d", "d_v")

BaseShapes == {DataCsv, DataNoExt, SeveralDots, TrailingDot, EmptyStem, PatternInExt}

MaxPrior == 10      \* highest version written before the session starts

\* the file an earlier upload_versioned_csv of version n left in the folder
PriorWrite(b, n) == NewFile(11, Target, VersionedName(b, n), "old")

InitNaming ==
    /\ strict \in BOOLEAN
    /\ base \in BaseShapes
    /\ \E n \in 0..MaxPrior :
          files = Chain \cup {Original(base)}
                  \cup (IF n = 0 THEN {} ELSE {PriorWrite(base, n)})
    /\ InitSessions

SpecNaming == InitNaming /\ [][NextSolo]_vars

-----------------------------------------------------------------------------
(* A folder with about as many versioned siblings as one listing returns *)

\* the file written for version n by an earlier save
ManySibling(n) == NewFile(100 + n, Target, VersionedName(DataCsv, n), "old")

\* a deleted version beyond the live ones, and a name that holds the pattern
\* without a number (with PageSizeVersions versions, one sibling too many for
\* one listing)
ManyExtras ==
    {Entry(98, VersionedName(DataCsv, 500), Target, FALSE, TRUE, "old"),
     Entry(99, <<"d", "_", "v", "x", ".", "c">>, Target, FALSE, FALSE, "old")}

InitMany ==
    /\ strict \in BOOLEAN
    /\ base = DataCsv
    /\ \E count \in (PageSizeVersions - 2)..PageSizeVersions :
       \E extras \in SUBSET ManyExtras :
          files = Chain \cup {Original(base)} \cup extras
                  \cup {ManySibling(n) : n \in 1..count}
    /\ InitSessions

\* one save of one session
NextOnce == Save(1, 1)

SpecMany == InitMany /\ [][NextOnce]_vars

-----------------------------------------------------------------------------
(* The mock application (src/app_test.py): the session of an authorized user *)

MaxSaves == 3       \* saves in one mock session

MockParticipants == { <<"7">>, <<"8">> }

\* what mock_load_csv returns: the downloaded frame, or the fallback frame
LoadedFrames == {[data |-> "drive"], [data |-> "fallback"]}

\* what the data editor may hand back after the user's edits
EditedFrames == {[data |-> "edit1"], [data |-> "edit2"]}

\* the display block on a session without 'original_df': the frame is loaded
\* and the counters start
MockLoad(m, df) ==
    [m EXCEPT !.has_df = TRUE, !.original_df = df, !.current_df = df,
              !.save_count = 0, !.last_saved_version = None]

\* the keys a search for another participant deletes
MockClear(m) ==
    [m EXCEPT !.has_df = FALSE, !.original_df = None, !.current_df = None,
              !.save_count = 0]

\* Search pressed with a participant id and an accelerometer type
MockSearch(p) ==
    /\ LET m == [(IF mock.participant_id # p THEN MockClear(mock) ELSE mock)
                    EXCEPT !.participant_id = p]
       IN  IF m.has_df THEN mock' = m
           ELSE \E df \in LoadedFrames : mock' = MockLoad(m, df)
    /\ UNCHANGED <<files, nextId, strict, base, st, ver, res, snap, errs, rd, last, ui>>

\* new_filename of the mock save
MockVersionedName(n) == NamePart(CsvFilename) \o <<"_", "v">> \o IntToStr(n)
                            \o <<".">> \o Ext(CsvFilename)

\* Save pressed after an edit (the button is disabled without one)
MockSave(edited_df) ==
    /\ mock.participant_id # <<>>
    /\ mock.has_df
    /\ edited_df # mock.current_df
    /\ Len(mock.saved) < MaxSaves
    /\ LET version_num == mock.save_count + 1
           new_filename == MockVersionedName(version_num)
       IN  mock' = [mock EXCEPT
                      !.current_df = edited_df,
                      !.save_count = version_num,
                      !.last_saved_version = [name |-> new_filename],
                      !.saved = Append(@, [participant |-> mock.participant_id,
                                           n |-> version_num,
                                           name |-> new_filename])]
    /\ UNCHANGED <<files, nextId, strict, base, st, ver, res, snap, errs, rd, last, ui>>

\* Dismiss pressed on the success message
MockDismiss ==
    /\ mock.participant_id # <<>>
    /\ mock.last_saved_version # None
    /\ mock' = [mock EXCEPT !.last_saved_version = None]
    /\ UNCHANGED <<files, nextId, strict, base, st, ver, res, snap, errs, rd, last, ui>>

\* Reload from Google Drive pressed
MockReload ==
    /\ mock.participant_id # <<>>
    /\ mock.has_df
    /\ \E df \in LoadedFrames :
          mock' = [mock EXCEPT !.original_df = df, !.current_df = df, !.save_count = 0]
    /\ UNCHANGED <<files, nextId, strict, base, st, ver, res, snap, errs, rd, last, ui>>

NextMock ==
    \/ \E p \in MockParticipants : MockSearch(p)
    \/ \E edited_df \in EditedFrames : MockSave(edited_df)
    \/ MockDismiss
    \/ MockReload

\* the mock application touches no store
InitMock ==
    /\ strict = FALSE
    /\ base = CsvFilename
    /\ files = {}
    /\ InitSessions

SpecMock == InitMock /\ [][NextMock]_vars

-----------------------------------------------------------------------------
(* Claims about concurrent and sequential saves *)

\* the files of the results folder that are not deleted
Live == {f \in files : f.parent = Target /\ ~f.folder /\ ~f.trashed}

\* the version numbers a sibling name may carry in this model
VersionRange == 0..(9 + NumWriters * MaxCalls)

IsVersionedName(name) == \E n \in VersionRange : name = VersionedName(base, n)

\* the save invocations that reported success after the store answered their
\* sibling listing
Succeeded(w) == st[w][1] = "Success" /\ "version" \notin errs[w][1]

\* C1: under every interleaving of the scans and creates of concurrent writers,
\* no two writes that both report success end with the same final name: the
\* files they created are distinct non-deleted files of the folder, and no two
\* of them carry the same versioned name {stem}_v{n}.{ext}.
C1_UniqueVersionedNames ==
    \A w \in Writers : \A v \in Writers :
        (w # v /\ Succeeded(w) /\ Succeeded(v)) =>
            \A f \in Live : \A g \in Live :
                (f.id = res[w][1].id /\ g.id = res[v][1].id /\ IsVersionedName(f.name))
                    => f.name # g.name

\* both sessions listed the siblings while the highest version was 2, and both
\* calls have ended without a failure of the store's transport
BothScannedAtTwo ==
    /\ \A w \in {1, 2} :
          /\ st[w][1] \in Terminal
          /\ ver[w][1] = 3
          /\ "version" \notin errs[w][1]
          /\ "upload: store unavailable" \notin errs[w][1]
          /\ MaxVersion({f.name : f \in VersionQuery(snap[w][1], Target,
                                                     VersionPattern(base))}, base) = 2

\* C2: two writers that both scan at highest version 2 before either creates
\* both succeed, exactly one as _v3 and the other as _v4 or higher.
C2_RaceGivesV3AndV4 ==
    BothScannedAtTwo =>
        /\ \A w \in {1, 2} : st[w][1] = "Success"
        /\ \E w \in {1, 2} : \E n \in VersionRange :
              /\ res[w][1].name = VersionedName(base, 3)
              /\ n >= 4
              /\ res[3 - w][1].name = VersionedName(base, n)

\* C3: two sequential successful saves of one session, with no other writer,
\* return strictly increasing version numbers, whatever the listing of the
\* second call did.
C3_SequentialIncreasing ==
    \A i \in Calls : \A j \in Calls :
        (i < j /\ st[1][i] = "Success" /\ st[1][j] = "Success")
            => ver[1][j] > ver[1][i]

\* invocation i of session w has returned and the session has not saved since
Returned(w, i) == st[w][i] \in Terminal /\ (i = MaxCalls \/ st[w][i + 1] = "Idle")

\* C4: after a save returned success, every file that existed before the call,
\* the original included, is still there with the same id, name and content,
\* and the folder holds exactly one file that did not exist before, named
\* {stem}_v{n}.{ext} for the returned n.
C4_SuccessAddsOneFile ==
    \A i \in Calls :
        (Returned(1, i) /\ st[1][i] = "Success") =>
            /\ Original(base) \in snap[1][i]
            /\ snap[1][i] \subseteq files
            /\ \E f \in files :
                  /\ files \ snap[1][i] = {f}
                  /\ f.id = res[1][i].id
                  /\ f.name = res[1][i].name
                  /\ f.name = VersionedName(base, ver[1][i])
                  /\ f.parent = Target
                  /\ f.content = Payload(1, i)

\* a second save succeeded after a first one did
C4_Witness ==
    \E i \in Calls : i > 1 /\ Returned(1, i) /\ st[1][i] = "Success" /\ st[1][i - 1] = "Success"

\* a step in which an operation ends in an error or a negative result
ErrorOutcome ==
    \/ rd'.err /\ ~rd.err
    \/ rd'.op \in {"resolved", "found", "downloaded"} /\ rd.op # rd'.op /\ rd'.out = None
    \/ \E w \in Writers : \E i \in Calls :
          \/ errs'[w][i] # errs[w][i]
          \/ st[w][i] # "Failed" /\ st'[w][i] = "Failed"

\* C5: no error outcome of resolve, find, download, nextVersion or writeVersioned
\* changes or removes a file, and a failed save leaves no new file behind.
C5_ErrorsLeaveStoreAlone ==
    /\ [][ErrorOutcome => files' = files]_vars
    /\ [](\A i \in Calls :
             (Returned(1, i) /\ st[1][i] = "Failed") => files = snap[1][i])

\* a save failed on the store and a read failed too, with files in the folder
C5_Witness ==
    /\ \E i \in Calls : Returned(1, i) /\ st[1][i] = "Failed" /\ i > 1
    /\ rd.err
    /\ Cardinality(Live) > 2

\* the create of session w is about to collide: the store keeps names unique
\* and the candidate name is taken
Colliding(w) ==
    /\ st[w][1] = "Creating"
    /\ strict
    /\ NameTaken(files, Target, VersionedName(base, ver[w][1]))

\* C6: when the create fails because the candidate name already exists, the
\* writer increments n by one and creates again without a new listing (here:
\* for the first collision of an invocation, which a positive retry bound
\* cannot have exhausted).
C6_CollisionRetries ==
    [][\A w \in Writers :
          (Colliding(w) /\ "upload: name exists" \in errs'[w][1])
              => (st'[w][1] = "Creating" /\ ver'[w][1] = ver[w][1] + 1)]_vars

\* the state of the save state machine a position of the code stands for: a
\* return of None is the failure exit of the machine
SaveState(s) == IF s = "Failed" THEN "Exhausted" ELSE s

SaveTransitions ==
    {<<"Idle", "Allocating">>, <<"Allocating", "Creating">>, <<"Creating", "Success">>,
     <<"Creating", "CollisionRetry">>, <<"CollisionRetry", "Creating">>,
     <<"Creating", "Exhausted">>}

\* C7: every save invocation starts in Idle, takes only the transitions
\* Idle -> Allocating -> Creating -> {Success | CollisionRetry -> Creating |
\* Exhausted}, and, every store call returning, ends in Success or Exhausted
\* and stays there, whatever the other writers do.
C7_SaveStateMachine ==
    /\ \A w \in Writers : st[w][1] = "Idle"
    /\ [][\A w \in Writers :
             st'[w][1] # st[w][1] =>
                 /\ <<SaveState(st[w][1]), SaveState(st'[w][1])>> \in SaveTransitions
                 /\ st[w][1] \notin Terminal]_vars
    /\ \A w \in Writers :
          (st[w][1] = "Allocating") ~> (SaveState(st[w][1]) \in {"Success", "Exhausted"})

\* both sessions ended, one in each terminal state, after running concurrently
C7_Witness ==
    /\ st[1][1] = "Success"
    /\ st[2][1] = "Failed"
    /\ snap[1][1] = snap[2][1]

-----------------------------------------------------------------------------
(* Claims about the allocator and the resolver *)

\* the non-deleted children of the results folder
Children == {f \in files : f.parent = Target /\ ~f.trashed}

\* V: the integers n such that a non-deleted child is named {stem}_v{n}.{ext}
\* ({stem}_v{n} when the base filename has no '.')
VersionsPresent ==
    {n \in VersionRange : \E f \in Children : f.name = VersionedName(base, n)}

MaxOf(S) == CHOOSE m \in S : \A n \in S : m >= n

\* an invocation that holds the number get_next_version_number returned, with
\* the folder as the listing saw it
Allocated(i) == st[1][i] = "Creating"

\* C8: nextVersion returns max(V) + 1, and 1 when V is empty; the result is a
\* positive integer.
C8_NextVersionIsMaxPlusOne ==
    \A i \in Calls :
        Allocated(i) =>
            /\ ver[1][i] >= 1
            /\ ver[1][i] = IF VersionsPresent = {} THEN 1 ELSE MaxOf(VersionsPresent) + 1

EndsWith(s, p) == Len(p) <= Len(s) /\ StartsAt(s, Len(s) - Len(p) + 1, p)

\* the name without the prefix {stem}_v, when it starts with it
StripPrefix(name, b) ==
    IF StartsAt(name, 1, VersionPattern(b))
    THEN SubSeq(name, Len(VersionPattern(b)) + 1, Len(name))
    ELSE name

\* the name without the suffix .{ext}, when ext is non-empty and it ends with it
StripSuffix(name, b) ==
    IF Ext(b) # <<>> /\ EndsWith(name, <<".">> \o Ext(b))
    THEN SubSeq(name, 1, Len(name) - Len(Ext(b)) - 1)
    ELSE name

IsNonNegativeInteger(s) == s # <<>> /\ \A k \in 1..Len(s) : IsDigit(s[k])

\* a sibling with a similar prefix whose remainder is no version number
Malformed(name, b) ==
    /\ Contains(name, VersionPattern(b))
    /\ ~IsNonNegativeInteger(StripSuffix(StripPrefix(name, b), b))

\* C9: a sibling whose name contains {stem}_v but whose remainder, after
\* stripping the prefix and the suffix, is not a non-negative integer is
\* skipped: the number returned with such names in the folder is the number
\* returned without them.
C9_MalformedNamesSkipped ==
    \A i \in Calls :
        (Allocated(i) /\ "version" \notin errs[1][i]) =>
            ver[1][i] = NextVersionOf({f \in Children : ~Malformed(f.name, base)}, base)

\* the folders a path leads to from a folder, through non-deleted child folders
RECURSIVE ChainEnds(_, _, _)
ChainEnds(fs, cur, path) ==
    IF path = <<>> THEN {cur}
    ELSE UNION {ChainEnds(fs, f.id, Tail(path)) : f \in FolderQuery(fs, cur, Head(path))}

\* C10: resolve returns the id of the last container whenever every segment
\* names, in order, a non-deleted child container of the previous one; when
\* segment k has no such child it returns NotFound after exactly k lookups.
C10_ResolveFollowsChain ==
    rd.op = "resolved" =>
        /\ ChainEnds(files, Root, rd.path) # {} =>
              (rd.out # None /\ rd.out.id \in ChainEnds(files, Root, rd.path))
        /\ rd.out = None =>
              /\ FolderQuery(files, rd.cur, rd.path[rd.k]) = {}
              /\ rd.looks = rd.k

-----------------------------------------------------------------------------
(* Claims about the reading operations *)

\* both runs of a repeated resolve were answered by the store
BothAnswered == rd.op = "resolved" /\ last # None /\ ~rd.err /\ ~last.err

\* C11: two runs of resolve with the same anchor and path against the same
\* store contents return the same container id, whatever order the store
\* lists the matching children in.
C11_ResolveDeterministic ==
    (BothAnswered /\ last.store = files /\ last.path = rd.path) => rd.out = last.out

\* the non-deleted children of the container that carry exactly the name asked for
ExactChildren(folder_id, filename) ==
    {f \in files : f.parent = folder_id /\ ~f.trashed /\ f.name = filename}

\* C12: find returns a descriptor only of a non-deleted child of that container
\* whose name equals the requested name exactly, and returns NotFound exactly
\* when the container has no such child.
C12_FindExactChild ==
    rd.op = "found" =>
        /\ rd.out # None =>
              \E f \in ExactChildren(rd.cur, rd.path[1]) :
                 rd.out = [id |-> f.id, name |-> f.name]
        /\ rd.out = None <=> ExactChildren(rd.cur, rd.path[1]) = {}

\* what the three operations return when nothing is there: None, None, and the
\* version after no versioned sibling
NotFound == None
VersionOfEmptyFolder == NextVersionOf({}, base)

\* C13: a store failure during resolve, find or nextVersion reaches the caller
\* as an outcome distinct from the normal negative result: it is never
\* reported as an absent folder, an absent file, or version 1.
C13_FailureDistinct ==
    /\ (rd.op \in {"resolved", "found"} /\ rd.err) => rd.out # NotFound
    /\ \A i \in Calls :
          (st[1][i] = "Creating" /\ "version" \in errs[1][i]) =>
              ver[1][i] # VersionOfEmptyFolder

-----------------------------------------------------------------------------
(* Claims about the application *)

\* the positions of a run from which a store call is issued next
CallingPositions == {"resolve", "find", "csv", "editor"}

\* C14: in every run, for every sequence of user inputs across reruns, no store
\* call is issued unless check_user_authorization, evaluated earlier in that run
\* on the identity currently entered, returned true; the check compares the
\* lower-cased identity against the allow-list.
C14_AuthorizedBeforeStoreCalls ==
    (ui.calls # <<>> \/ ui.pos \in CallingPositions) =>
        /\ ui.checked = "True"
        /\ ui.checked_email = ui.user_email
        /\ Lower(ui.user_email) \in ui.users
        /\ ui.users \subseteq AuthorizedUsers(SheetRows)

\* store calls issued for an identity that is on the list only once lower-cased,
\* in a run that follows earlier runs
C14_Witness ==
    /\ Len(ui.calls) >= 4
    /\ ui.user_email = <<"A">>
    /\ ui.runs >= 3

\* the calls of the current run that are lookups of a file
Finds == {k \in 1..Len(ui.calls) : ui.calls[k].op = "find"}

\* C15: the search resolves exactly the four segments [accelerometerType,
\* participantId, "output_"+participantId, "results"] in that order from the
\* root anchor, then looks up the editable file and the two reports in the
\* resolved container; after NotFound no lookup is issued, and each of the three
\* lookups happens whether or not the others found their file.
C15_LocateParticipantFiles ==
    LET segments == <<Accelerometer, ui.participant_id,
                      OutputPrefix \o ui.participant_id, R>>
    IN  /\ ui.calls # <<>> => ui.calls[1] = Call("resolve", Root, segments)
        /\ \A k \in 2..Len(ui.calls) : ui.calls[k].op # "resolve"
        /\ ui.target = None => Finds = {}
        /\ \A k \in Finds :
              k \in 2..4 /\ ui.calls[k] = Call("find", ui.target.id, LookupOrder[k - 1])
        /\ (ui.target # None /\ ui.pos \in {"csv", "editor", "idle"}) => Finds = 2..4

\* a finished search in which the editable file was not found and a report was
C15_Witness ==
    /\ ui.pos = "idle"
    /\ Len(ui.found) = 3
    /\ ui.found[1] = None
    /\ ui.found[2] # None
    /\ ui.found[3] = None

\* C16: after an authorized user searched successfully and the editable file
\* was loaded, the run started by pressing Save reaches the save branch:
\* upload_versioned_csv is called.
C16_SaveLeadsToUpload ==
    (ui.pos = "idle" /\ ui.pressed = "save" /\ ui.checked = "True") =>
        \E k \in 1..Len(ui.calls) : ui.calls[k].op = "upload"

-----------------------------------------------------------------------------
(* Claims about naming and rescanning *)

\* the versions n whose name, as the writer builds it for this base filename,
\* is the name of a non-deleted file of the folder
WrittenVersions ==
    {n \in 1..(MaxPrior + MaxCalls) :
        \E f \in Children : f.name = VersionedName(base, n)}

\* C17: for every base filename (with an extension, without '.', with several
\* '.', with a trailing '.', with an empty stem) and every n >= 1, the name the
\* writer builds for version n is parsed by the allocator as n, so nextVersion
\* after a write of version n returns at least n + 1.
C17_NamingAndParsingAgree ==
    \A i \in Calls :
        (Allocated(i) /\ "version" \notin errs[1][i]) =>
            \A n \in WrittenVersions :
                /\ ParseInt(VersionStr(VersionedName(base, n), base)) =
                       [ok |-> TRUE, val |-> n]
                /\ ver[1][i] >= n + 1

\* C18: nextVersion is a full rescan: its result is strictly greater than the
\* version of every non-deleted sibling named {stem}_v{n}.{ext}, for every
\* number of such siblings, also when there are more of them than one listing
\* request returns.
C18_FullRescan ==
    (Allocated(1) /\ "version" \notin errs[1][1]) =>
        \A n \in 1..(PageSizeVersions + 1) :
            (\E f \in Children : f.name = VersionedName(base, n)) => ver[1][1] > n

-----------------------------------------------------------------------------
(* Claims about the mock application *)

\* C19: in a mock session, for any sequence of user actions (search, edit,
\* save, dismiss, reload, search again), successive saves for one participant
\* carry strictly increasing version numbers, so no versioned filename is
\* produced twice for that participant; and a save never changes original_df.
C19_MockVersionsIncrease ==
    /\ \A i, j \in 1..Len(mock.saved) :
          (i < j /\ mock.saved[i].participant = mock.saved[j].participant) =>
              /\ mock.saved[i].n < mock.saved[j].n
              /\ mock.saved[i].name # mock.saved[j].name
    /\ mock.has_df => mock.original_df \in LoadedFrames

====
